---------------------------- MODULE Spec2Model ----------------------------
(***************************************************************************)
(* Model of the user_dirs crate (src/src/lib.rs): the five directory       *)
(* functions data_dir, config_dir, cache_dir, state_dir and runtime_dir,   *)
(* the process environment they read through std::env::var, the platform   *)
(* std::env::consts::OS they branch on and the home lookup they delegate   *)
(* to.                                                                     *)
(*                                                                         *)
(* An OS string (the value of an environment variable) and a path are      *)
(* sequences of units.  A unit is a piece of text, or the unit NonUnicode, *)
(* which stands for content that is not valid Unicode (a stray 0xFF byte   *)
(* on Unix, an unpaired surrogate on Windows).  Option<T> is a sequence of *)
(* length at most one: None is <<>> and Some(x) is <<x>>.                  *)
(***************************************************************************)
EXTENDS Naturals, Sequences, FiniteSets

VARIABLES
    os,       \* std::env::consts::OS of the build
    home,     \* what home::home_dir() answers now: None or Some(path)
    env,      \* the process environment: variable name -> Option<OsString>
    last,     \* the most recent call of a directory function and its result
    changed   \* what changed since that call: "none", one name, or "many"

vars == <<os, home, env, last, changed>>

-----------------------------------------------------------------------------
(* Bounds of the model *)

\* The environment holds at most MaxSet of the seven variables at a time.
MaxSet == 2

\* The content that is not valid Unicode.
NonUnicode == "<0xFF>"

\* The values the model gives to the XDG variables: the empty string, a
\* relative path, whitespace, and a value that is not valid Unicode.
Values == {<<>>, <<"foo">>, <<" ">>, <<NonUnicode>>}

\* The values the model gives to APPDATA and LOCALAPPDATA.
AppDataValues == {<<"foo">>, <<NonUnicode>>}

-----------------------------------------------------------------------------
(* Options, OS strings, paths *)

None == <<>>

Some(x) == <<x>>

Platforms == {"macos", "windows", "linux"}

XdgVars == {"XDG_DATA_HOME", "XDG_CONFIG_HOME", "XDG_CACHE_HOME",
            "XDG_STATE_HOME", "XDG_RUNTIME_DIR"}

Vars == XdgVars \cup {"APPDATA", "LOCALAPPDATA"}

ValuesOf(name) == IF name \in XdgVars THEN Values ELSE AppDataValues

\* std::path::MAIN_SEPARATOR of the platform.
MainSeparator(o) == IF o = "windows" THEN "\\" ELSE "/"

\* The home directory of the user Leah of the crate documentation.
HomeOf(o) ==
    CASE o = "macos"   -> <<"/", "Users", "/", "Leah">>
      [] o = "windows" -> <<"C:", "\\", "Users", "\\", "Leah">>
      [] OTHER         -> <<"/", "home", "/", "leah">>

\* OsString::into_string: succeeds on valid Unicode only.
IsUnicode(s) == \A i \in 1..Len(s) : s[i] # NonUnicode

\* PathBuf::join with a relative single-component argument: a separator is
\* added unless the path is empty or already ends with one.
Join(o, p, c) ==
    IF p = <<>> \/ p[Len(p)] = MainSeparator(o)
    THEN Append(p, c)
    ELSE p \o <<MainSeparator(o), c>>

-----------------------------------------------------------------------------
(* Results *)

OkPath(p) == [kind |-> "Ok", path |-> p]

OkSome(p) == [kind |-> "Ok(Some)", path |-> p]

OkNone == [kind |-> "Ok(None)", path |-> <<>>]

SomePath(p) == [kind |-> "Some", path |-> p]

NonePath == [kind |-> "None", path |-> <<>>]

HomeDirError == [kind |-> "Err(HomeDirError)", path |-> <<>>]

NoResult == [kind |-> "none", path |-> <<>>]

-----------------------------------------------------------------------------
(* The library *)

\* std::env::var(name): Err(NotPresent) when the variable is absent,
\* Err(NotUnicode) when its value is not valid Unicode, Ok(value) otherwise.
EnvVar(e, name) ==
    IF e[name] = None THEN [ok |-> FALSE, val |-> <<>>]
    ELSE IF IsUnicode(e[name][1]) THEN [ok |-> TRUE, val |-> e[name][1]]
    ELSE [ok |-> FALSE, val |-> <<>>]

\* home::home_dir().ok_or(HomeDirError)
home_dir(h) == IF h = None THEN HomeDirError ELSE OkPath(h[1])

\* The else branch of data_dir: the home lookup, then the platform match.
data_dir_default(e, o, h) ==
    IF home_dir(h).kind # "Ok" THEN HomeDirError
    ELSE LET hp == home_dir(h).path IN
         CASE o = "macos" ->
                OkPath(Join(o, Join(o, hp, "Library"), "Application Support"))
           [] o = "windows" ->
                IF EnvVar(e, "APPDATA").ok
                THEN OkPath(EnvVar(e, "APPDATA").val)
                ELSE OkPath(Join(o, Join(o, hp, "AppData"), "Roaming"))
           [] OTHER -> OkPath(Join(o, Join(o, hp, ".local"), "share"))

\* A data_dir that looks the home directory up only where the result uses it.
data_dir_lazy(e, o, h) ==
    IF EnvVar(e, "XDG_DATA_HOME").ok
    THEN OkPath(EnvVar(e, "XDG_DATA_HOME").val)
    ELSE IF o = "windows" /\ EnvVar(e, "APPDATA").ok
    THEN OkPath(EnvVar(e, "APPDATA").val)
    ELSE data_dir_default(e, o, h)

data_dir(e, o, h) ==
    IF EnvVar(e, "XDG_DATA_HOME").ok
    THEN OkPath(EnvVar(e, "XDG_DATA_HOME").val)
    ELSE data_dir_default(e, o, h)

\* The else branch of config_dir.
config_dir_default(e, o, h) ==
    IF home_dir(h).kind # "Ok" THEN HomeDirError
    ELSE LET hp == home_dir(h).path IN
         CASE o = "macos" ->
                OkPath(Join(o, Join(o, hp, "Library"), "Preferences"))
           [] o = "windows" ->
                IF EnvVar(e, "APPDATA").ok
                THEN OkPath(EnvVar(e, "APPDATA").val)
                ELSE OkPath(Join(o, Join(o, hp, "AppData"), "Roaming"))
           [] OTHER -> OkPath(Join(o, hp, ".config"))

\* A config_dir that keeps its first successful answer (a OnceLock cache).
config_dir_memo(e, o, h) ==
    IF last.fn = "config_dir" /\ last.res.kind = "Ok" THEN last.res
    ELSE IF EnvVar(e, "XDG_CONFIG_HOME").ok
    THEN OkPath(EnvVar(e, "XDG_CONFIG_HOME").val)
    ELSE config_dir_default(e, o, h)

config_dir(e, o, h) ==
    IF EnvVar(e, "XDG_CONFIG_HOME").ok
    THEN OkPath(EnvVar(e, "XDG_CONFIG_HOME").val)
    ELSE config_dir_default(e, o, h)

\* The else branch of cache_dir.
cache_dir_default(e, o, h) ==
    IF home_dir(h).kind # "Ok" THEN HomeDirError
    ELSE LET hp == home_dir(h).path IN
         CASE o = "macos" ->
                OkPath(Join(o, Join(o, hp, "Library"), "Caches"))
           [] o = "windows" ->
                IF EnvVar(e, "LOCALAPPDATA").ok
                THEN OkPath(EnvVar(e, "LOCALAPPDATA").val)
                ELSE OkPath(Join(o, Join(o, hp, "AppData"), "Local"))
           [] OTHER -> OkPath(Join(o, hp, ".cache"))

\* A cache_dir pasted from config_dir with the variable name left as it was.
cache_dir_pasted(e, o, h) ==
    IF EnvVar(e, "XDG_CONFIG_HOME").ok
    THEN OkPath(EnvVar(e, "XDG_CONFIG_HOME").val)
    ELSE cache_dir_default(e, o, h)

cache_dir(e, o, h) ==
    IF EnvVar(e, "XDG_CACHE_HOME").ok
    THEN OkPath(EnvVar(e, "XDG_CACHE_HOME").val)
    ELSE cache_dir_default(e, o, h)

\* A state_dir that returns None on macOS and Windows before the home lookup.
state_dir_lazy(e, o, h) ==
    IF EnvVar(e, "XDG_STATE_HOME").ok
    THEN OkSome(EnvVar(e, "XDG_STATE_HOME").val)
    ELSE IF o \in {"macos", "windows"} THEN OkNone
    ELSE IF home_dir(h).kind # "Ok" THEN HomeDirError
    ELSE OkSome(Join(o, Join(o, home_dir(h).path, ".local"), "state"))

state_dir(e, o, h) ==
    IF EnvVar(e, "XDG_STATE_HOME").ok
    THEN OkSome(EnvVar(e, "XDG_STATE_HOME").val)
    ELSE IF home_dir(h).kind # "Ok" THEN HomeDirError
    ELSE LET hp == home_dir(h).path IN
         CASE o \in {"macos", "windows"} -> OkNone
           [] OTHER -> OkSome(Join(o, Join(o, hp, ".local"), "state"))

\* A runtime_dir with a fallback under the home directory.
runtime_dir_fallback(e, o, h) ==
    IF EnvVar(e, "XDG_RUNTIME_DIR").ok
    THEN SomePath(EnvVar(e, "XDG_RUNTIME_DIR").val)
    ELSE IF home_dir(h).kind # "Ok" THEN HomeDirError
    ELSE SomePath(Join(o, home_dir(h).path, ".run"))

runtime_dir(e, o, h) ==
    IF EnvVar(e, "XDG_RUNTIME_DIR").ok
    THEN SomePath(EnvVar(e, "XDG_RUNTIME_DIR").val)
    ELSE NonePath

-----------------------------------------------------------------------------
(* The program: a process that changes its environment and calls the       *)
(* library (examples/usage.rs does both).                                  *)

Present(e) == {n \in Vars : e[n] # None}

Note(what) ==
    IF changed = "none" \/ changed = what THEN what ELSE "many"

Init ==
    /\ os \in Platforms
    /\ home \in {None, Some(HomeOf(os))}
    /\ env \in {e \in [Vars -> {None} \cup {Some(v) : v \in Values}] :
                  /\ \A n \in Vars : e[n] = None \/ e[n][1] \in ValuesOf(n)
                  /\ Cardinality(Present(e)) <= MaxSet}
    /\ last = [fn |-> "none", res |-> NoResult]
    /\ changed = "none"

\* std::env::set_var(name, value)
SetVar ==
    \E n \in Vars : \E v \in ValuesOf(n) :
        /\ Cardinality(Present(env) \cup {n}) <= MaxSet
        /\ env' = [env EXCEPT ![n] = Some(v)]
        /\ changed' = Note(n)
        /\ UNCHANGED <<os, home, last>>

\* std::env::remove_var(name)
RemoveVar ==
    \E n \in Vars :
        /\ env[n] # None
        /\ env' = [env EXCEPT ![n] = None]
        /\ changed' = Note(n)
        /\ UNCHANGED <<os, home, last>>

\* The home lookup of the platform starts or stops resolving.
HomeChanges ==
    /\ home' = IF home = None THEN Some(HomeOf(os)) ELSE None
    /\ changed' = Note("HOME")
    /\ UNCHANGED <<os, env, last>>

Return(f, r) ==
    /\ last' = [fn |-> f, res |-> r]
    /\ changed' = "none"
    /\ UNCHANGED <<os, home, env>>

CallDataDir == Return("data_dir", data_dir(env, os, home))

CallConfigDir == Return("config_dir", config_dir(env, os, home))

CallCacheDir == Return("cache_dir", cache_dir(env, os, home))

CallStateDir == Return("state_dir", state_dir(env, os, home))

CallRuntimeDir == Return("runtime_dir", runtime_dir(env, os, home))

Next ==
    \/ SetVar
    \/ RemoveVar
    \/ HomeChanges
    \/ CallDataDir
    \/ CallConfigDir
    \/ CallCacheDir
    \/ CallStateDir
    \/ CallRuntimeDir

Spec == Init /\ [][Next]_vars

-----------------------------------------------------------------------------
(* Vocabulary of the properties *)

Functions == {"data_dir", "config_dir", "cache_dir", "state_dir", "runtime_dir"}

\* The override variable of each function's category.
OverrideOf(f) ==
    CASE f = "data_dir"   -> "XDG_DATA_HOME"
      [] f = "config_dir" -> "XDG_CONFIG_HOME"
      [] f = "cache_dir"  -> "XDG_CACHE_HOME"
      [] f = "state_dir"  -> "XDG_STATE_HOME"
      [] OTHER            -> "XDG_RUNTIME_DIR"

\* The value v as function f returns it: a path, Ok(Some(path)) for
\* state_dir, Some(path) for runtime_dir.
Returned(f, v) ==
    CASE f = "state_dir"   -> OkSome(v)
      [] f = "runtime_dir" -> SomePath(v)
      [] OTHER             -> OkPath(v)

\* The path h/a and the path h/a/b, written with the platform's separator.
Under1(o, h, a) == h \o <<MainSeparator(o), a>>

Under2(o, h, a, b) == h \o <<MainSeparator(o), a, MainSeparator(o), b>>

\* The last call was made in the present environment: nothing has changed
\* since it returned, so last.res is what the function answers to env, os
\* and home as they are.
Fresh == last.fn # "none" /\ changed = "none"

FreshCallOf(f) == Fresh /\ last.fn = f

IsSet(name) == env[name] # None

\* The documented default of data_dir, config_dir and cache_dir for home h.
DocumentedDefault(f, o, h) ==
    CASE o = "macos" ->
           CASE f = "data_dir"   -> Under2(o, h, "Library", "Application Support")
             [] f = "config_dir" -> Under2(o, h, "Library", "Preferences")
             [] OTHER            -> Under2(o, h, "Library", "Caches")
      [] o = "windows" ->
           CASE f = "cache_dir" ->
                  IF IsSet("LOCALAPPDATA") THEN env["LOCALAPPDATA"][1]
                  ELSE Under2(o, h, "AppData", "Local")
             [] OTHER ->
                  IF IsSet("APPDATA") THEN env["APPDATA"][1]
                  ELSE Under2(o, h, "AppData", "Roaming")
      [] OTHER ->
           CASE f = "data_dir"   -> Under2(o, h, ".local", "share")
             [] f = "config_dir" -> Under1(o, h, ".config")
             [] OTHER            -> Under1(o, h, ".cache")

-----------------------------------------------------------------------------
(* C1 *)

\* C1 as stated: whenever the override variable of a category is set to a
\* value V, the empty string included, the category's function returns
\* exactly V (Ok(Some(V)) for state_dir, Some(V) for runtime_dir), on every
\* platform, whatever APPDATA and LOCALAPPDATA hold and whether or not the
\* home directory resolves.
OverridePrecedence ==
    \A f \in Functions :
        (FreshCallOf(f) /\ IsSet(OverrideOf(f)))
            => last.res = Returned(f, env[OverrideOf(f)][1])

\* What the code does guarantee: the same, for values that are valid Unicode.
OverridePrecedenceForUnicode ==
    \A f \in Functions :
        (FreshCallOf(f) /\ IsSet(OverrideOf(f))
            /\ IsUnicode(env[OverrideOf(f)][1]))
            => last.res = Returned(f, env[OverrideOf(f)][1])

-----------------------------------------------------------------------------
(* C2 *)

\* C2 as stated: for data_dir, config_dir and cache_dir with the override
\* variable unset and the home lookup yielding H, the function returns the
\* documented platform default; on Windows that is the value of APPDATA
\* (LOCALAPPDATA for cache_dir) if set, and H\AppData\Roaming
\* (H\AppData\Local) otherwise.
PlatformDefaults ==
    \A f \in {"data_dir", "config_dir", "cache_dir"} :
        (FreshCallOf(f) /\ ~IsSet(OverrideOf(f)) /\ home # None)
            => last.res = OkPath(DocumentedDefault(f, os, home[1]))

\* What the code does guarantee: the same on macOS and the POSIX default,
\* and on Windows when APPDATA and LOCALAPPDATA are unset or valid Unicode.
PlatformDefaultsForUnicode ==
    \A f \in {"data_dir", "config_dir", "cache_dir"} :
        (FreshCallOf(f) /\ ~IsSet(OverrideOf(f)) /\ home # None
            /\ \A n \in {"APPDATA", "LOCALAPPDATA"} :
                  IsSet(n) => IsUnicode(env[n][1]))
            => last.res = OkPath(DocumentedDefault(f, os, home[1]))

-----------------------------------------------------------------------------
(* C3 *)

\* The result of f needs the home directory: the override is unset and the
\* platform default is built from the home path.
NeedsHome(f) ==
    /\ ~IsSet(OverrideOf(f))
    /\ CASE f \in {"data_dir", "config_dir"} ->
              os = "windows" => ~IsSet("APPDATA")
         [] f = "cache_dir" -> os = "windows" => ~IsSet("LOCALAPPDATA")
         [] f = "state_dir" -> os \notin {"macos", "windows"}
         [] OTHER -> FALSE

\* C3 as stated: with the home directory unresolvable, each of data_dir,
\* config_dir, cache_dir and state_dir whose override variable is set
\* succeeds and returns that value, and each whose override is unset and
\* whose result needs the home directory fails with HomeDirError;
\* HomeDirError is the only failure, and it is never returned when the home
\* lookup succeeds.
ErrorHandling ==
    \A f \in Functions :
        FreshCallOf(f) =>
            /\ (home = None /\ f # "runtime_dir" /\ IsSet(OverrideOf(f)))
                  => last.res = Returned(f, env[OverrideOf(f)][1])
            /\ (home = None /\ NeedsHome(f)) => last.res = HomeDirError
            /\ last.res.kind \in
                  {"Ok", "Ok(Some)", "Ok(None)", "Some", "None",
                   "Err(HomeDirError)"}
            /\ home # None => last.res # HomeDirError

-----------------------------------------------------------------------------
(* C4 *)

\* C4 as stated: state_dir with XDG_STATE_HOME unset yields None on macOS
\* and on Windows, and Some(home/.local/state) on the POSIX default.
StateDirDefault ==
    (FreshCallOf("state_dir") /\ ~IsSet("XDG_STATE_HOME")) =>
        IF os \in {"macos", "windows"}
        THEN last.res = OkNone
        ELSE /\ home # None
             /\ last.res = OkSome(Under2(os, home[1], ".local", "state"))

\* C4 amended: state_dir with XDG_STATE_HOME unset fails with HomeDirError
\* when the home directory cannot be resolved, on every platform; when it
\* resolves, state_dir yields None on macOS and on Windows and
\* Some(home/.local/state) on the POSIX default.
StateDirDefaultAfterHomeLookup ==
    (FreshCallOf("state_dir") /\ ~IsSet("XDG_STATE_HOME")) =>
        IF home = None
        THEN last.res = HomeDirError
        ELSE IF os \in {"macos", "windows"}
        THEN last.res = OkNone
        ELSE last.res = OkSome(Under2(os, home[1], ".local", "state"))

\* state_dir has answered None on macOS with the override unset.
StateDirNoneOnMacos ==
    /\ FreshCallOf("state_dir")
    /\ ~IsSet("XDG_STATE_HOME")
    /\ os = "macos"
    /\ home # None
    /\ last.res = OkNone

-----------------------------------------------------------------------------
(* C5 *)

\* C5: runtime_dir never fails, and with XDG_RUNTIME_DIR unset it returns
\* None on every platform, whatever the home directory, APPDATA,
\* LOCALAPPDATA and the other override variables are.
RuntimeDirNoFallback ==
    FreshCallOf("runtime_dir") =>
        /\ last.res.kind \in {"Some", "None"}
        /\ ~IsSet("XDG_RUNTIME_DIR") => last.res = NonePath

\* runtime_dir has answered None with the home directory unresolvable and
\* another override variable set.
RuntimeDirNoneWithoutHome ==
    /\ FreshCallOf("runtime_dir")
    /\ ~IsSet("XDG_RUNTIME_DIR")
    /\ home = None
    /\ IsSet("XDG_STATE_HOME")
    /\ last.res = NonePath

-----------------------------------------------------------------------------
(* C6 *)

\* C6: between two calls of the same function, when nothing changed but the
\* override variable of another category (set, changed or unset, any number
\* of times), the second call returns what the first returned: value,
\* absence or error.
OverrideIndependence ==
    [][(/\ last.fn # "none"
        /\ changed \in XdgVars \ {OverrideOf(last.fn)}
        /\ changed' = "none"
        /\ last'.fn = last.fn)
          => last'.res = last.res]_vars

\* cache_dir has answered, and since then XDG_CONFIG_HOME alone was set, to
\* a value that cache_dir did not return.
OtherOverrideChanged ==
    /\ last.fn = "cache_dir"
    /\ changed = "XDG_CONFIG_HOME"
    /\ IsSet("XDG_CONFIG_HOME")
    /\ IsUnicode(env["XDG_CONFIG_HOME"][1])
    /\ last.res # OkPath(env["XDG_CONFIG_HOME"][1])

-----------------------------------------------------------------------------
(* C7 *)

\* What the documentation promises of a call made in environment env: the
\* override "foo" is returned as it is, and with the override unset on the
\* POSIX default with home H the result is the default under H (None for
\* runtime_dir).
AnswersPresentEnvironment ==
    \A f \in Functions :
        FreshCallOf(f) =>
            /\ env[OverrideOf(f)] = Some(<<"foo">>)
                  => last.res = Returned(f, <<"foo">>)
            /\ (~IsSet(OverrideOf(f)) /\ os = "linux" /\ home # None) =>
                  last.res =
                    CASE f = "state_dir" ->
                           OkSome(Under2(os, home[1], ".local", "state"))
                      [] f = "runtime_dir" -> NonePath
                      [] OTHER -> OkPath(DocumentedDefault(f, os, home[1]))

\* A second call of the same function in an unchanged environment.
RepeatedCall ==
    /\ last.fn # "none"
    /\ changed = "none"
    /\ changed' = "none"
    /\ last'.fn = last.fn

\* C7: no caching across calls.  After any sequence of environment changes
\* and calls, a call answers the environment of its moment: config_dir
\* returns "foo" once XDG_CONFIG_HOME is set to "foo" and home/.config once
\* it is unset again (POSIX default), and likewise for the other functions;
\* two calls in an unchanged environment return identical results.
NoCaching ==
    /\ []AnswersPresentEnvironment
    /\ [][RepeatedCall => last'.res = last.res]_vars

\* config_dir returned "foo", and XDG_CONFIG_HOME has been unset since: the
\* next call must not answer "foo".
OverrideUnsetAfterCall ==
    /\ last = [fn |-> "config_dir", res |-> OkPath(<<"foo">>)]
    /\ changed = "XDG_CONFIG_HOME"
    /\ ~IsSet("XDG_CONFIG_HOME")
    /\ os = "linux"
    /\ home # None

-----------------------------------------------------------------------------
(* C8 *)

\* C8 as stated: an override variable present in the environment with any
\* value at all is treated as set: the function succeeds with that value
\* unchanged, and never falls back to the platform default, to absence or to
\* an error because of the value's content.
NoValidation ==
    \A f \in Functions : \A v \in Values :
        (FreshCallOf(f) /\ env[OverrideOf(f)] = Some(v)) =>
            /\ last.res.kind = Returned(f, v).kind
            /\ last.res.path = v

-----------------------------------------------------------------------------
(* C10 *)

\* C10: in data_dir, config_dir, cache_dir and state_dir, with the
\* function's own override variable unset, an unresolvable home directory
\* makes the function return HomeDirError on every platform, also where the
\* result would not use the home path.
EagerHomeLookup ==
    \A f \in Functions \ {"runtime_dir"} :
        (FreshCallOf(f) /\ ~IsSet(OverrideOf(f)) /\ home = None)
            => last.res = HomeDirError

\* data_dir has failed on Windows with APPDATA set to a usable value.
DataDirFailsDespiteAppData ==
    /\ FreshCallOf("data_dir")
    /\ ~IsSet("XDG_DATA_HOME")
    /\ os = "windows"
    /\ env["APPDATA"] = Some(<<"foo">>)
    /\ home = None
    /\ last.res = HomeDirError

=============================================================================
